---- MODULE Spec2Model ----
(***************************************************************************)
(* Model of g27.py: the decoder of the 8-byte joystick events of a         *)
(* Logitech G27 (Bytewurst, Value, Button, Message), the read/dispatch     *)
(* loop G27.loop and the press/release detector PressHandler.              *)
(*                                                                         *)
(* Bytes objects are sequences of integers 0..255.  A Python float is      *)
(* modelled by the exact rational it is computed from, [num, den]; the     *)
(* values the program compares (k/65535 against 0.5) are far enough apart  *)
(* that rounding never changes the outcome of a comparison.                *)
(***************************************************************************)
EXTENDS Integers, Sequences, FiniteSets, TLC

VARIABLES handlers, pc, bs, msg, idx, hist, called, events

vars == <<handlers, pc, bs, msg, idx, hist, called, events>>

(***************************************************************************)
(* Bounds of the model.                                                    *)
(***************************************************************************)
\* Number of device.read(8) calls one run of loop() performs in the model.
MaxFrames == 3

(***************************************************************************)
(* Values.                                                                 *)
(***************************************************************************)
\* Python's None, where a float is expected.
None == [kind |-> "None", num |-> 0, den |-> 1]

\* The float whose exact value is n/d.
Float(n, d) == [kind |-> "float", num |-> n, den |-> d]

\* a < b and a >= b on floats, by cross-multiplication.
LessThan(a, b) == a.num * b.den < b.num * a.den
GreaterEq(a, b) == ~LessThan(a, b)

\* button_name=None of PressHandler.__init__.
NoName == "None"

\* bs[a:b] of Python, 0 <= a <= b: a slice past the end is cut short.
Slice(s, a, b) == SubSeq(s, a + 1, IF b < Len(s) THEN b ELSE Len(s))

(***************************************************************************)
(* _normalize                                                              *)
(***************************************************************************)
\* _normalize with the lower bound of its first branch subtracted off by one.
_normalize_OffByOne(x) ==
    IF 32769 <= x /\ x <= 65535 THEN Float(x - 32768, 65535)
    ELSE IF 0 = x THEN Float(1, 2)
    ELSE IF 0 < x /\ x <= 32767 THEN Float(x + 32768, 65535)
    ELSE None

_normalize(x) ==
    IF 32769 <= x /\ x <= 65535 THEN Float(x - 32769, 65535)
    ELSE IF 0 = x THEN Float(1, 2)
    ELSE IF 0 < x /\ x <= 32767 THEN Float(x + 32768, 65535)
    ELSE None

(***************************************************************************)
(* BUTTON2NAME_DICT                                                        *)
(***************************************************************************)
BUTTON2NAME ==
    << <<"0200", "wheel axis">>,
       <<"0105", "paddle left">>,
       <<"0104", "paddle right">>,
       <<"0107", "wheel button left 1">>,
       <<"0114", "wheel button left 2">>,
       <<"0115", "wheel button left 3">>,
       <<"0106", "wheel button right 1">>,
       <<"0112", "wheel button right 2">>,
       <<"0113", "wheel button right 3">>,
       <<"0201", "clutch">>,
       <<"0203", "brake">>,
       <<"0202", "gas">>,
       <<"0101", "shifter button left">>,
       <<"0102", "shifter button right">>,
       <<"0103", "shifter button up">>,
       <<"0100", "shifter button down">>,
       <<"0204", "dpad left/right">>,
       <<"0205", "dpad up/down">>,
       <<"010b", "shifter button 1">>,
       <<"0108", "shifter button 2">>,
       <<"0109", "shifter button 3">>,
       <<"010a", "shifter button 4">>,
       <<"010c", "gear 1">>,
       <<"010d", "gear 2">>,
       <<"010e", "gear 3">>,
       <<"010f", "gear 4">>,
       <<"0110", "gear 5">>,
       <<"0111", "gear 6">>,
       <<"0116", "gear R">> >>

\* dict(f()): the keys are the codes, each mapped to the name of its line.
BUTTON2NAME_DICT ==
    [k \in {BUTTON2NAME[i][1] : i \in 1..Len(BUTTON2NAME)} |->
        LET i == CHOOSE j \in 1..Len(BUTTON2NAME) :
                    /\ BUTTON2NAME[j][1] = k
                    /\ \A l \in (j + 1)..Len(BUTTON2NAME) : BUTTON2NAME[l][1] # k
        IN BUTTON2NAME[i][2]]

(***************************************************************************)
(* powergenerator, Bytewurst                                               *)
(***************************************************************************)
RECURSIVE powergenerator(_)
\* The i-th value the generator yields (i = 0, 1, ...): 256 ** i.
powergenerator(i) == IF i = 0 THEN 1 ELSE 256 * powergenerator(i - 1)

Bytewurst(b) == [raw |-> b, ints |-> b]

RECURSIVE SumZip(_, _)
\* sum(a * b for a, b in zip(ints, powergenerator())), from position i on.
SumZip(ints, i) ==
    IF i > Len(ints) THEN 0
    ELSE ints[i] * powergenerator(i - 1) + SumZip(ints, i + 1)

Bytewurst_int(bw) == SumZip(bw.ints, 1)

HexDigits == <<"0", "1", "2", "3", "4", "5", "6", "7",
               "8", "9", "a", "b", "c", "d", "e", "f">>

RECURSIVE hexlify(_)
\* binascii.hexlify: two lowercase hex digits per byte, in the bytes' order.
hexlify(raw) ==
    IF raw = <<>> THEN ""
    ELSE HexDigits[(raw[1] \div 16) + 1] \o HexDigits[(raw[1] % 16) + 1]
            \o hexlify(Tail(raw))

Bytewurst_hex(bw) == hexlify(bw.raw)

\* What an f-string makes of a bytes object: its repr, b'...'.
FormatBytes(h) == "b'" \o h \o "'"

(***************************************************************************)
(* Button, Value, Message                                                  *)
(***************************************************************************)
Button_name(b) ==
    LET h == Bytewurst_hex(b)
    IN IF h \in DOMAIN BUTTON2NAME_DICT THEN BUTTON2NAME_DICT[h]
       ELSE "UNKNOWN: " \o FormatBytes(h)

Value_normalized(v) == _normalize(Bytewurst_int(v))

\* Message.__init__ with the value taken from bytes 3 and 4.
Message_ValueSlice(b) ==
    [bs       |-> b,
     ints     |-> b,
     sequence |-> [raw |-> Slice(b, 0, 4), ints |-> Slice(b, 0, 4)],
     value    |-> [raw |-> Slice(b, 3, 5), ints |-> Slice(b, 3, 5)],
     button   |-> [raw |-> Slice(b, 6, 8), ints |-> Slice(b, 6, 8)]]

\* Message.__init__
Message(b) ==
    [bs       |-> b,
     ints     |-> b,
     sequence |-> Bytewurst(Slice(b, 0, 4)),
     value    |-> Bytewurst(Slice(b, 4, 6)),
     button   |-> Bytewurst(Slice(b, 6, 8))]

\* Message.__repr__ formats value.normalized with ':5.0%', which raises a
\* TypeError for None; this is whether it raises.
Message_repr_raises(m) == Value_normalized(m.value).kind = "None"

\* The message attribute of the state before the first read.
NoMessage == Message(<<>>)

(***************************************************************************)
(* PressHandler                                                            *)
(***************************************************************************)
\* PressHandler.__init__ (the callbacks are recorded by the caller).
PressHandler(button_name, press_value, release_value) ==
    [kind          |-> "PressHandler",
     is_pressed    |-> FALSE,
     button_name   |-> button_name,
     press_value   |-> press_value,
     release_value |-> release_value]

\* The assertion of PressHandler.__init__.
PressHandler_assert(h) == ~LessThan(h.release_value, h.press_value)

\* The handler print of main(); it has no state of its own, the fields of a
\* PressHandler are kept at their defaults.
PrintHandler ==
    [kind          |-> "print",
     is_pressed    |-> FALSE,
     button_name   |-> NoName,
     press_value   |-> Float(1, 2),
     release_value |-> Float(1, 2)]

\* The outcome of one call of a handler: the handler afterwards, the callbacks
\* it invoked, in order, and whether the call raised.
Outcome(h, fired, raised) == [handler |-> h, fired |-> fired, raised |-> raised]

\* PressHandler.__call__ without the test of is_pressed before on_press.
PressHandler_call_NoEdge(h, m) ==
    LET x == _normalize(SumZip(m.value.ints, 1))
    IN IF h.button_name # NoName /\ Button_name(m.button) # h.button_name
       THEN [handler |-> h, fired |-> <<>>, raised |-> FALSE]
       ELSE IF x.kind = "None"
       THEN [handler |-> h, fired |-> <<>>, raised |-> TRUE]
       ELSE IF LessThan(x, Float(1, 2))
       THEN [handler |-> [h EXCEPT !.is_pressed = TRUE],
             fired |-> <<"on_press">>, raised |-> FALSE]
       ELSE [handler |-> [h EXCEPT !.is_pressed = FALSE],
             fired |-> IF h.is_pressed THEN <<"on_release">> ELSE <<>>,
             raised |-> FALSE]

\* PressHandler.__call__ without the test of button_name.
PressHandler_call_NoFilter(h, m) ==
    LET x == _normalize(SumZip(m.value.ints, 1))
    IN IF x.kind = "None"
       THEN [handler |-> h, fired |-> <<>>, raised |-> TRUE]
       ELSE IF LessThan(x, Float(1, 2))
       THEN [handler |-> [h EXCEPT !.is_pressed = TRUE],
             fired |-> IF h.is_pressed THEN <<>> ELSE <<"on_press">>,
             raised |-> FALSE]
       ELSE [handler |-> [h EXCEPT !.is_pressed = FALSE],
             fired |-> IF h.is_pressed THEN <<"on_release">> ELSE <<>>,
             raised |-> FALSE]

\* PressHandler.__call__
PressHandler_call(h, m) ==
    LET x == Value_normalized(m.value)
    IN IF h.button_name # NoName /\ Button_name(m.button) # h.button_name
       THEN Outcome(h, <<>>, FALSE)
       ELSE IF x.kind = "None"
       THEN Outcome(h, <<>>, TRUE)       \* None < 0.5 raises TypeError
       ELSE IF LessThan(x, Float(1, 2))
       THEN IF ~h.is_pressed
            THEN Outcome([h EXCEPT !.is_pressed = TRUE], <<"on_press">>, FALSE)
            ELSE Outcome(h, <<>>, FALSE)
       ELSE IF h.is_pressed
            THEN Outcome([h EXCEPT !.is_pressed = FALSE], <<"on_release">>, FALSE)
            ELSE Outcome([h EXCEPT !.is_pressed = FALSE], <<>>, FALSE)

\* print(msg)
Print_call(h, m) == Outcome(h, <<>>, Message_repr_raises(m))

\* handler(msg)
Call(h, m) ==
    IF h.kind = "PressHandler" THEN PressHandler_call(h, m) ELSE Print_call(h, m)

(***************************************************************************)
(* Inputs: what the device delivers and the handlers in use.               *)
(***************************************************************************)
\* An event of 8 bytes: sequence bytes, the raw value (little endian), button.
Frame(sq, raw, button) == sq \o <<raw % 256, raw \div 256>> \o button

\* Raw values: 0 -> 0.5, 6553 -> 0.6, 58983 -> 0.4, 52429 -> just under 0.3,
\* and 32768, which no branch of _normalize covers.
Chunks ==
    {Frame(<<1, 0, 0, 0>>, raw, <<2, 2>>) : raw \in {0, 6553, 58983, 52429, 32768}}
    \cup {Frame(<<2, 0, 0, 0>>, raw, <<2, 3>>) : raw \in {6553, 58983, 32768}}
    \cup {Frame(<<3, 0, 0, 0>>, 58983, <<255, 255>>)}
    \cup {<<>>, <<4, 0, 0, 0, 1>>}

\* The lists assigned to wheel.handlers before loop() is called.
HandlerLists ==
    { <<PressHandler("gas", Float(1, 2), Float(1, 2)),
        PressHandler("brake", Float(1, 2), Float(1, 2))>>,
      <<PressHandler(NoName, Float(3, 10), Float(6, 10)), PrintHandler>>,
      <<PrintHandler, PressHandler("gas", Float(3, 10), Float(3, 10))>>,
      <<PressHandler("gas", Float(6, 10), Float(6, 10))>>,
      <<PressHandler("gas", Float(1, 2), Float(1, 2)),
        PressHandler("gas", Float(3, 10), Float(6, 10)),
        PrintHandler>> }

(***************************************************************************)
(* G27.loop                                                                *)
(*   pc      where loop() is: "read" (about to call device.read), "dispatch"*)
(*           (inside the for loop, about to call handlers[idx]) or "raised" *)
(*           (an exception left loop())                                    *)
(*   hist    the chunks read so far                                        *)
(*   called  the handlers invoked for the current message, in order        *)
(*   events  per handler, the callbacks it has invoked, in order           *)
(***************************************************************************)
\* A buffered read returns fewer than 8 bytes only at the end of the input,
\* and nothing but b'' after that.
AtEof == \E i \in 1..Len(hist) : Len(hist[i]) < 8

Init ==
    /\ handlers \in HandlerLists
    /\ \A i \in 1..Len(handlers) : PressHandler_assert(handlers[i])
    /\ pc = "read"
    /\ bs = <<>>
    /\ msg = NoMessage
    /\ idx = 1
    /\ hist = <<>>
    /\ called = <<>>
    /\ events = [i \in 1..Len(handlers) |-> <<>>]

\* bs = device.read(8); msg = Message(bs); the for loop starts.
Read ==
    /\ pc = "read"
    /\ Len(hist) < MaxFrames
    /\ \E chunk \in Chunks :
        /\ AtEof => chunk = <<>>
        /\ bs' = chunk
        /\ msg' = Message(chunk)
        /\ hist' = Append(hist, chunk)
    /\ idx' = 1
    /\ called' = <<>>
    /\ pc' = IF Len(handlers) = 0 THEN "read" ELSE "dispatch"
    /\ UNCHANGED <<handlers, events>>

\* The for loop with a handler's exception caught and ignored.
Dispatch_Swallow ==
    /\ pc = "dispatch"
    /\ idx <= Len(handlers)
    /\ LET r == Call(handlers[idx], msg)
       IN /\ handlers' = [handlers EXCEPT ![idx] = r.handler]
          /\ events' = [events EXCEPT ![idx] = @ \o r.fired]
          /\ called' = Append(called, idx)
          /\ IF idx = Len(handlers)
             THEN pc' = "read" /\ idx' = idx
             ELSE pc' = "dispatch" /\ idx' = idx + 1
    /\ UNCHANGED <<bs, msg, hist>>

\* handler(msg) for the next handler of the list.
Dispatch ==
    /\ pc = "dispatch"
    /\ idx <= Len(handlers)
    /\ LET r == Call(handlers[idx], msg)
       IN /\ handlers' = [handlers EXCEPT ![idx] = r.handler]
          /\ events' = [events EXCEPT ![idx] = @ \o r.fired]
          /\ called' = Append(called, idx)
          /\ IF r.raised
             THEN pc' = "raised" /\ idx' = idx
             ELSE IF idx = Len(handlers)
             THEN pc' = "read" /\ idx' = idx
             ELSE pc' = "dispatch" /\ idx' = idx + 1
    /\ UNCHANGED <<bs, msg, hist>>

Next == Read \/ Dispatch

Spec == Init /\ [][Next]_vars

TypeOK ==
    /\ pc \in {"read", "dispatch", "raised"}
    /\ idx \in 1..Len(handlers)
    /\ Len(hist) <= MaxFrames

(***************************************************************************)
(* Decoding on its own: Message(bs) applied to one chunk.                  *)
(* The fourth byte stays below 128 so that the sequence number fits the    *)
(* model checker's integers.                                               *)
(***************************************************************************)
ExampleFrame == <<160, 183, 163, 4, 92, 125, 2, 2>>

DecodeChunks ==
    {<<b0, b1, b2, b3, b4, b5, b6, b7>> :
        b0 \in {1, 160, 255}, b1 \in {0, 183}, b2 \in {3, 163}, b3 \in {4, 10, 127},
        b4 \in {0, 1, 92, 255}, b5 \in {0, 125, 127, 128, 255},
        b6 \in {0, 1, 2, 255}, b7 \in {0, 2, 11, 22, 255}}
    \cup {SubSeq(ExampleFrame, 1, n) : n \in 0..7}

InitDecode ==
    /\ bs \in DecodeChunks
    /\ pc = "input"
    /\ msg = NoMessage
    /\ handlers = <<>>
    /\ idx = 1
    /\ hist = <<>>
    /\ called = <<>>
    /\ events = <<>>

\* msg = Message(bs)
Decode ==
    /\ pc = "input"
    /\ msg' = Message(bs)
    /\ pc' = "decoded"
    /\ UNCHANGED <<handlers, bs, idx, hist, called, events>>

NextDecode == Decode

SpecDecode == InitDecode /\ [][NextDecode]_vars

(***************************************************************************)
(* Properties of decoding (SpecDecode).                                    *)
(***************************************************************************)
\* The two lowercase hex digits of the bytes the button positions take.
ExpectedHex(b) ==
    CASE b = 0 -> "00" [] b = 1 -> "01" [] b = 2 -> "02" [] b = 11 -> "0b"
      [] b = 22 -> "16" [] b = 255 -> "ff"

RECURSIVE Decimals(_, _, _)
\* The first k decimal places of n/d, 0 <= n < d, by long division.
Decimals(n, d, k) ==
    IF k = 0 THEN <<>>
    ELSE <<(10 * n) \div d>> \o Decimals((10 * n) % d, d, k - 1)

Decoded == pc = "decoded" /\ Len(bs) = 8

\* C8: the name of a two-byte button code is its catalog entry when the code's
\* four lowercase hex digits are a catalog key, and otherwise exactly
\* "UNKNOWN: " followed by those four hex digits.
C8_LookupSentinel ==
    Decoded =>
        LET code == ExpectedHex(bs[7]) \o ExpectedHex(bs[8])
        IN Button_name(msg.button) =
                IF code \in DOMAIN BUTTON2NAME_DICT
                THEN BUTTON2NAME_DICT[code]
                ELSE "UNKNOWN: " \o code

\* The fields of a decoded 8-byte frame: the sequence is the little-endian
\* value of bytes 0..3, the raw value the little-endian value of bytes 4..5,
\* the catalog key the hex of byte 6 followed by the hex of byte 7 (so 02 00 is
\* the wheel axis and 01 0b shifter button 1); the example frame has the raw
\* value 32092 and the button "gas", and 01 00 03 0A is the sequence 167968769.
DecodeFields ==
    /\ Bytewurst_int(msg.sequence) =
            bs[1] + 256 * bs[2] + 65536 * bs[3] + 16777216 * bs[4]
    /\ Bytewurst_int(msg.value) = bs[5] + 256 * bs[6]
    /\ Bytewurst_hex(msg.button) = ExpectedHex(bs[7]) \o ExpectedHex(bs[8])
    /\ bs = ExampleFrame =>
            /\ Bytewurst_int(msg.value) = 32092
            /\ Button_name(msg.button) = "gas"
    /\ SubSeq(bs, 1, 4) = <<1, 0, 3, 10>> =>
            Bytewurst_int(msg.sequence) = 167968769
    /\ (bs[7] = 2 /\ bs[8] = 0) => Button_name(msg.button) = "wheel axis"
    /\ (bs[7] = 1 /\ bs[8] = 11) => Button_name(msg.button) = "shifter button 1"

\* C9 as stated: the fields of a decoded 8-byte frame are as DecodeFields says,
\* and the example frame A0 B7 A3 04 5C 7D 02 02 has the sequence 77952928.
C9_AsStated ==
    Decoded =>
        /\ DecodeFields
        /\ bs = ExampleFrame => Bytewurst_int(msg.sequence) = 77952928

\* C9, amended: the fields of a decoded 8-byte frame are as DecodeFields says,
\* and the example frame A0 B7 A3 04 5C 7D 02 02 has the sequence
\* 0x04A3B7A0 = 77838240.
C9_DecodeFields ==
    Decoded =>
        /\ DecodeFields
        /\ bs = ExampleFrame => Bytewurst_int(msg.sequence) = 77838240

C9_Witness ==
    /\ pc = "decoded"
    /\ bs = ExampleFrame
    /\ Bytewurst_int(msg.sequence) = 77838240
    /\ Button_name(msg.button) = "gas"

\* The piecewise table of the normalizer, as exact fractions, with its
\* values at 32769, 0 and 32767.
NormalizeTable(raw, n) ==
    /\ (32769 <= raw /\ raw <= 65535) => n = Float(raw - 32769, 65535)
    /\ raw = 0 => n = Float(1, 2)
    /\ (0 < raw /\ raw <= 32767) => n = Float(raw + 32768, 65535)
    /\ raw = 32769 => (n.kind = "float" /\ n.num = 0)
    /\ raw = 32767 => (n.kind = "float" /\ n.num = n.den)

\* n, rounded to six decimal places, is 0.d1d2d3d4d5d6.
RoundsTo(n, digits) ==
    /\ n.kind = "float"
    /\ Decimals(n.num, n.den, 6) = digits
    /\ Decimals(n.num, n.den, 7)[7] < 5

\* C10 as stated: the normalized value follows the piecewise table
\* (raw - 32769)/65535 on 32769..65535, 1/2 at 0, (raw + 32768)/65535 on
\* 1..32767, so 32769 gives 0.0 and 32767 gives 1.0, and 65535 gives a value
\* that agrees with 0.499992 to six decimal places.
C10_AsStated ==
    Decoded =>
        LET raw == bs[5] + 256 * bs[6]
            n   == Value_normalized(msg.value)
        IN /\ NormalizeTable(raw, n)
           /\ raw = 65535 => RoundsTo(n, <<4, 9, 9, 9, 9, 2>>)

\* C10, amended: the normalized value follows the piecewise table, 32769
\* gives 0.0, 0 gives 0.5 and 32767 gives 1.0, and 65535 gives 32766/65535,
\* which is 0.499977 to six decimal places.
C10_NormalizeTable ==
    Decoded =>
        LET raw == bs[5] + 256 * bs[6]
            n   == Value_normalized(msg.value)
        IN /\ NormalizeTable(raw, n)
           /\ raw = 65535 => RoundsTo(n, <<4, 9, 9, 9, 7, 7>>)

C10_Witness ==
    /\ Decoded
    /\ bs[5] = 255 /\ bs[6] = 255
    /\ Value_normalized(msg.value) = Float(32766, 65535)

(***************************************************************************)
(* Properties of the loop and of the press detector (Spec).                *)
(***************************************************************************)
\* Handler i is called in this step (with msg).
Invoked(i) == pc = "dispatch" /\ idx = i /\ called' = Append(called, i)

IsDetector(i) == handlers[i].kind = "PressHandler"

\* msg passes the button filter of handler i.
PassesFilter(i) ==
    \/ handlers[i].button_name = NoName
    \/ Button_name(msg.button) = handlers[i].button_name

\* The normalized value handed to the handlers.
X == Value_normalized(msg.value)

Last(s) == s[Len(s)]

\* on_press and on_release alternate in s, on_press first.
Alternates(s) ==
    \A k \in 1..Len(s) : s[k] = IF k % 2 = 1 THEN "on_press" ELSE "on_release"

Gas(raw) == Frame(<<1, 0, 0, 0>>, raw, <<2, 2>>)

\* C1: a detector that starts Released invokes on_press only on a step from
\* Released to Pressed and on_release only on a step from Pressed to Released,
\* so its callbacks alternate starting with on_press; while it is Pressed no
\* message makes it invoke on_press again.
C1_OneCallbackPerEdge ==
    /\ [](\A i \in 1..Len(handlers) :
            /\ Alternates(events[i])
            /\ handlers[i].is_pressed <=>
                    (events[i] # <<>> /\ Last(events[i]) = "on_press"))
    /\ [][\A i \in 1..Len(handlers) :
            /\ events'[i] # events[i] =>
                    /\ Invoked(i)
                    /\ \/ /\ events'[i] = Append(events[i], "on_press")
                          /\ ~handlers[i].is_pressed /\ handlers'[i].is_pressed
                       \/ /\ events'[i] = Append(events[i], "on_release")
                          /\ handlers[i].is_pressed /\ ~handlers'[i].is_pressed
            /\ handlers'[i].is_pressed # handlers[i].is_pressed =>
                    events'[i] # events[i]
            /\ (Invoked(i) /\ handlers[i].is_pressed) =>
                    events'[i] \in {events[i], Append(events[i], "on_release")}
       ]_vars

\* The filtered detector got 0.4, a second reading under the threshold and
\* 0.6: one on_press, one on_release.
C1_Witness ==
    /\ hist = <<Gas(58983), Gas(52429), Gas(6553)>>
    /\ handlers[1] = PressHandler("gas", Float(1, 2), Float(1, 2))
    /\ events[1] = <<"on_press", "on_release">>
    /\ pc = "read"

\* C2: for a message that passes the filter, if the normalized value is below
\* press_value and the detector is Released it becomes Pressed and invokes
\* on_press; else if the value is at least release_value and the detector is
\* Pressed it invokes on_release and becomes Released.
C2_ConfiguredThresholds ==
    [][\A i \in 1..Len(handlers) :
        (Invoked(i) /\ IsDetector(i) /\ PassesFilter(i) /\ X.kind = "float") =>
            IF LessThan(X, handlers[i].press_value) /\ ~handlers[i].is_pressed
            THEN /\ handlers'[i].is_pressed
                 /\ events'[i] = Append(events[i], "on_press")
            ELSE IF GreaterEq(X, handlers[i].release_value) /\ handlers[i].is_pressed
            THEN /\ ~handlers'[i].is_pressed
                 /\ events'[i] = Append(events[i], "on_release")
            ELSE TRUE
      ]_vars

\* C3: with press_value < release_value, a message that passes the filter and
\* whose normalized value v has press_value <= v < release_value changes
\* neither is_pressed nor invokes a callback.
C3_DeadZone ==
    [][\A i \in 1..Len(handlers) :
        ( /\ Invoked(i) /\ IsDetector(i) /\ PassesFilter(i) /\ X.kind = "float"
          /\ LessThan(handlers[i].press_value, handlers[i].release_value)
          /\ GreaterEq(X, handlers[i].press_value)
          /\ LessThan(X, handlers[i].release_value) ) =>
            /\ handlers'[i].is_pressed = handlers[i].is_pressed
            /\ events'[i] = events[i]
      ]_vars

\* C4: a detector whose button_name is set ignores every message of another
\* button: called with one, it keeps is_pressed, invokes no callback and does
\* not fail, whatever the value and its state; a detector's state and
\* callbacks change only in its own call, with a message that passes its filter.
C4_FilterFrame ==
    [][\A i \in 1..Len(handlers) :
        /\ (Invoked(i) /\ IsDetector(i) /\ ~PassesFilter(i)) =>
                /\ handlers'[i] = handlers[i]
                /\ events'[i] = events[i]
                /\ pc' # "raised"
        /\ (handlers'[i] # handlers[i] \/ events'[i] # events[i]) =>
                (Invoked(i) /\ PassesFilter(i))
      ]_vars

\* The brake detector, Released, has been called with a gas message under
\* the threshold that pressed the gas detector, and is still Released.
C4_Witness ==
    /\ Len(handlers) = 2
    /\ handlers[1].button_name = "gas" /\ handlers[2].button_name = "brake"
    /\ bs = Gas(58983)
    /\ called = <<1, 2>>
    /\ handlers[1].is_pressed /\ ~handlers[2].is_pressed
    /\ events[2] = <<>>

\* C5: a chunk that is not 8 bytes long raises an error: no handler is
\* invoked for it and the loop does not go on.
C5_FramingError ==
    (hist # <<>> /\ Len(bs) # 8) => (called = <<>> /\ pc = "raised")

\* C6: the normalized value handed to a handler is a number in [0, 1], never
\* an absent value.
C6_NormalizedDefined ==
    called # <<>> => /\ X.kind = "float"
                     /\ 0 <= X.num /\ X.num <= X.den

\* C7: the handlers are called in the order of the list, each once, with the
\* message of the chunk just read; the next chunk is read only when all have
\* been called; when a call fails the loop ends: no handler after it is
\* called and no further chunk is read.
C7_DispatchOrder ==
    /\ [](/\ called = [k \in 1..Len(called) |-> k]
          /\ Len(called) <= Len(handlers)
          /\ hist # <<>> => (bs = Last(hist) /\ msg = Message(bs))
          /\ pc = "dispatch" => idx = Len(called) + 1
          /\ (pc = "read" /\ hist # <<>>) => Len(called) = Len(handlers)
          /\ pc = "raised" => (called # <<>> /\ Call(handlers[Last(called)], msg).raised))
    /\ [][/\ hist' # hist =>
                /\ pc = "read"
                /\ hist # <<>> => Len(called) = Len(handlers)
                /\ called' = <<>>
          /\ (called' # called /\ hist' = hist) =>
                /\ called' = Append(called, Len(called) + 1)
                /\ msg' = msg
                /\ Call(handlers[idx], msg).raised <=> pc' = "raised"
          /\ pc = "raised" => UNCHANGED vars
       ]_vars

\* The first handler failed on the second message; the second handler was
\* not called for it.
C7_Witness ==
    /\ pc = "raised"
    /\ Len(hist) = 2
    /\ Len(handlers) = 2
    /\ called = <<1>>

====
